---- MODULE Spec2Model ----
(***************************************************************************)
(* A model of the OBBAnns toolkit (src/obb_anns/obb_anns.py): the object's *)
(* fields, load_annotations, load_proposals, set_annotation_set_filter,    *)
(* the getters, and calculate_metrics with its per-image greedy matcher    *)
(* and its PR/AP evaluator.                                                *)
(*                                                                         *)
(* Numbers.  Box coordinates and scores are integers.  Overlaps,           *)
(* thresholds, precisions, recalls and average precisions are exact        *)
(* rationals <<n, d>> with d > 0, kept in lowest terms, so that equal      *)
(* values are equal tuples.  The np.spacing(1) term of the precision       *)
(* denominator is below the resolution of this arithmetic and is left out. *)
(*                                                                         *)
(* Libraries.  polyiou is importable (line 24) and numpy still has         *)
(* np.float (lines 517-518).  polyiou.iou_poly is not among the source     *)
(* files; it is modelled as the intersection over union of two polygons.   *)
(*                                                                         *)
(* Four specifications: Spec, the documented workflow (annotations, one    *)
(* proposal file of one arity, metrics); SpecCalls, any sequence of calls  *)
(* with files of any make; SpecEval, one direct call of a function of the  *)
(* evaluator on arguments of its own; SpecView, the image viewer of        *)
(* src/tools/deepscoresV2.py.                                              *)
(***************************************************************************)
EXTENDS Integers, Sequences, FiniteSets, TLC

(***************************************************************************)
(* Bounds of the model.                                                    *)
(***************************************************************************)
\* The largest number of entries of a proposal file.
MaxProps == 2

(***************************************************************************)
(* Python values.                                                          *)
(***************************************************************************)
\* Python values that may be None carry their type: None, a str, a list, an int.
None == [type |-> "NoneType"]
PyStr(s) == [type |-> "str", val |-> s]
PyList(l) == [type |-> "list", val |-> l]
PyInt(i) == [type |-> "int", val |-> i]

\* The set of the elements of a sequence.
Range(s) == {s[i] : i \in DOMAIN s}

\* list.index(x): the first position of x (0-based); the caller guards x \in Range(s).
ListIndex(s, x) == (CHOOSE i \in DOMAIN s : s[i] = x /\ \A j \in 1..(i - 1) : s[j] # x) - 1

Min2(a, b) == IF a <= b THEN a ELSE b
Max2(a, b) == IF a >= b THEN a ELSE b

(***************************************************************************)
(* Exact rationals.                                                        *)
(***************************************************************************)
RECURSIVE Gcd(_, _)
Gcd(a, b) == IF b = 0 THEN a ELSE Gcd(b, a % b)

Abs(a) == IF a < 0 THEN -a ELSE a

\* n/d in lowest terms, d > 0.
Frac(n, d) ==
    LET g == Gcd(Abs(n), Abs(d))
        s == IF d < 0 THEN -1 ELSE 1
    IN  IF n = 0 THEN <<0, 1>> ELSE <<s * (n \div g), s * (d \div g)>>

FZero == <<0, 1>>
FOne == <<1, 1>>
FInt(k) == <<k, 1>>
FAdd(p, q) == Frac(p[1] * q[2] + q[1] * p[2], p[2] * q[2])
FSub(p, q) == Frac(p[1] * q[2] - q[1] * p[2], p[2] * q[2])
FMul(p, q) == Frac(p[1] * q[1], p[2] * q[2])
FDivInt(p, k) == Frac(p[1], p[2] * k)
FLess(p, q) == p[1] * q[2] < q[1] * p[2]
FLeq(p, q) == p[1] * q[2] <= q[1] * p[2]
FMax(p, q) == IF FLess(p, q) THEN q ELSE p

RECURSIVE FSum(_)
FSum(s) == IF s = <<>> THEN FZero ELSE FAdd(s[1], FSum(Tail(s)))

\* np.average of a non-empty sequence.
FAverage(s) == FDivInt(FSum(s), Len(s))

(***************************************************************************)
(* The annotation file.  One dataset: two annotation sets, two images,     *)
(* four annotations.  Image 0 lists its annotations in the order 3, 2, 1.  *)
(***************************************************************************)
DataAnnotationSets == <<"deepscores", "muscima++">>

\* The rectangles of the model, (xmin, ymin, xmax, ymax).
RBig == <<0, 0, 10, 10>>
RHalf == <<0, 0, 5, 10>>
RFifth == <<0, 0, 2, 10>>
RShift == <<4, 4, 14, 14>>
RCorner == <<5, 5, 15, 15>>

\* A rectangle as an axis-aligned box and as an oriented box (4 corner points).
ABox(r) == r
OBox(r) == <<r[1], r[2], r[3], r[2], r[3], r[4], r[1], r[4]>>

\* data['annotations']: id -> row.  cat_id holds one category id per annotation set.
DataAnnIds == 1..4
DataAnnotations ==
    [k \in DataAnnIds |->
        CASE k = 1 -> [a_bbox |-> ABox(RBig), o_bbox |-> OBox(RBig), cat_id |-> <<1, 2>>, img_id |-> 10]
          [] k = 2 -> [a_bbox |-> ABox(RBig), o_bbox |-> OBox(RBig), cat_id |-> <<1, 1>>, img_id |-> 10]
          [] k = 3 -> [a_bbox |-> ABox(RHalf), o_bbox |-> OBox(RHalf), cat_id |-> <<1, 2>>, img_id |-> 10]
          [] OTHER -> [a_bbox |-> ABox(RBig), o_bbox |-> OBox(RBig), cat_id |-> <<2, 1>>, img_id |-> 11]]

\* data['images'], positions 0 and 1 (a 1-based sequence here: position i is element i + 1).
DataImages == << [id |-> 10, ann_ids |-> <<3, 2, 1>>], [id |-> 11, ann_ids |-> <<4>>] >>

\* data['categories']: id -> name and owning annotation set.
DataCategories ==
    [k \in 1..2 |->
        IF k = 1 THEN [name |-> "notehead", annotation_set |-> "deepscores"]
                 ELSE [name |-> "clef", annotation_set |-> "deepscores"]]

(***************************************************************************)
(* Proposal files.  An entry: bbox, cat_id, img_id, score.                 *)
(***************************************************************************)
\* The detections' rectangles.  Against RBig: RFifth overlaps exactly 1/5 in both
\* geometries, RShift 9/49 aligned and 9/41 oriented, RCorner 1/9 and 1/7.
DetRects == {RBig, RFifth, RShift, RCorner}
\* The (image id, category id) pairs of the entries: each image with the category
\* its ground truth carries in the first annotation set.
DetPlaces == {<<10, 1>>, <<11, 2>>}
DetScores == {1, 2}

\* Entries whose boxes all have `arity` coordinates (4: aligned, 8: oriented).
Entries(arity) ==
    {[bbox |-> IF arity = 8 THEN OBox(r) ELSE ABox(r),
      cat_id |-> pl[2], img_id |-> pl[1], score |-> sc] :
        r \in DetRects, pl \in DetPlaces, sc \in DetScores}

\* Non-empty sequences over S of length at most n.
SeqsUpTo(S, n) == UNION {[1..k -> S] : k \in 1..n}

\* The proposal files with one arity throughout.
UniformFiles ==
    {[annotation_set |-> "deepscores", proposals |-> ps] :
        ps \in SeqsUpTo(Entries(4), MaxProps) \cup SeqsUpTo(Entries(8), MaxProps)}

(***************************************************************************)
(* The object's fields (OBBAnns.__init__) and the position of a running    *)
(* calculate_metrics call.                                                 *)
(***************************************************************************)
VARIABLES
    annotation_sets,      \* None or PyList of names
    chosen_ann_set,       \* None, PyStr or PyList: the active annotation-set filter
    img_info,             \* None or PyList of image records
    img_idx_lookup,       \* image id -> position in img_info (0-based)
    ann_info,             \* None or the annotation table (id -> row)
    cat_info,             \* None or the category table
    classes_blacklist_id, \* set of blacklisted category ids
    proposals,            \* None or PyList of rows [bbox, cat_id, img_idx, score]
    props_oriented,       \* BOOLEAN
    prop_ann_set_idx,     \* None or PyInt
    pc,                   \* "idle", or the position inside calculate_metrics
    todo_imgs,            \* calculate_metrics: images of unique_images still to process
    img_gt,               \* calculate_metrics: remaining ground-truth rows of the image
    img_props,            \* calculate_metrics: detections of the image still to match
    overlaps,             \* calculate_metrics: the flat list of overlap records
    ret,                  \* the outcome of the last call that ended
    view,                 \* visualize_annotation: the index of the image on show
    kn                    \* visualize_annotation: PyInt(0) or the key read last

objvars == <<annotation_sets, chosen_ann_set, img_info, img_idx_lookup, ann_info,
             cat_info, classes_blacklist_id, proposals, props_oriented, prop_ann_set_idx>>
runvars == <<pc, todo_imgs, img_gt, img_props, overlaps>>
viewvars == <<view, kn>>
vars == <<objvars, runvars, ret, viewvars>>

\* A call that raised: nothing is returned.
Raised(op, exc) == [op |-> op, status |-> exc]
\* A call that returned.
Returned(op, value) == [op |-> op, status |-> "ok", value |-> value]
\* A call that has not ended yet.
Running(op) == [op |-> op, status |-> "running"]
\* The same, for the calls whose arguments the outcome is read against.
RaisedOn(op, args, exc) == [op |-> op, args |-> args, status |-> exc]
ReturnedOn(op, args, value) == [op |-> op, args |-> args, status |-> "ok", value |-> value]

Init ==
    /\ annotation_sets = None
    /\ chosen_ann_set = None
    /\ img_info = None
    /\ img_idx_lookup = <<>>
    /\ ann_info = None
    /\ cat_info = None
    /\ classes_blacklist_id = {}
    /\ proposals = None
    /\ props_oriented = FALSE
    /\ prop_ann_set_idx = None
    /\ pc = "idle"
    /\ todo_imgs = <<>>
    /\ img_gt = <<>>
    /\ img_props = <<>>
    /\ overlaps = <<>>
    /\ ret = [op |-> "__init__", status |-> "ok", value |-> None]
    /\ view = 0
    /\ kn = PyInt(0)

(***************************************************************************)
(* load_annotations(annotation_set_filter).  The file is the dataset above.*)
(***************************************************************************)
\* The filters a caller passes to load_annotations: none, a known or an unknown name.
LoadFilterArgs == {None, PyStr("deepscores"), PyStr("lilypond")}

\* Lines 155-158: the lookup gains one entry per image; older entries stay.
LookupAfterLoad(old, images) ==
    [i \in DOMAIN old \cup {images[k].id : k \in DOMAIN images} |->
        IF \E k \in DOMAIN images : images[k].id = i
        THEN (CHOOSE k \in DOMAIN images :
                 images[k].id = i /\ \A j \in DOMAIN images : images[j].id = i => j <= k) - 1
        ELSE old[i]]

load_annotations(annotation_set_filter) ==
    /\ pc = "idle"
    /\ annotation_sets' = PyList(DataAnnotationSets)
    /\ IF annotation_set_filter # None /\ annotation_set_filter.val \notin Range(DataAnnotationSets)
       THEN \* the assertion of line 124 fails: the fields after it are not assigned
            /\ ret' = RaisedOn("load_annotations", annotation_set_filter, "AssertionError")
            /\ UNCHANGED <<chosen_ann_set, img_info, img_idx_lookup, ann_info, cat_info>>
       ELSE /\ chosen_ann_set' = IF annotation_set_filter # None
                                  THEN annotation_set_filter
                                  ELSE PyList(DataAnnotationSets)
            /\ cat_info' = [type |-> "dict", val |-> DataCategories]
            /\ ann_info' = [type |-> "DataFrame", val |-> DataAnnotations]
            /\ img_info' = PyList(DataImages)
            /\ img_idx_lookup' = LookupAfterLoad(img_idx_lookup, DataImages)
            /\ ret' = ReturnedOn("load_annotations", annotation_set_filter, None)
    /\ UNCHANGED <<classes_blacklist_id, proposals, props_oriented, prop_ann_set_idx, runvars>>
    /\ UNCHANGED viewvars

(***************************************************************************)
(* set_annotation_set_filter(annotation_set_filter)                        *)
(***************************************************************************)
SetFilterArgs == {PyList(<<"deepscores">>), PyList(<<"muscima++">>), PyList(<<"lilypond">>)}

set_annotation_set_filter(annotation_set_filter) ==
    /\ pc = "idle"
    /\ chosen_ann_set' = annotation_set_filter
    /\ ret' = ReturnedOn("set_annotation_set_filter", annotation_set_filter, None)
    /\ UNCHANGED <<annotation_sets, img_info, img_idx_lookup, ann_info, cat_info,
                   classes_blacklist_id, proposals, props_oriented, prop_ann_set_idx, runvars>>
    /\ UNCHANGED viewvars

(***************************************************************************)
(* load_proposals(proposal_file).  The file holds at least one entry.      *)
(***************************************************************************)
\* Lines 199-207: the rows of the proposals table, in the file's order.
ProposalRows(entries, lookup) ==
    [i \in DOMAIN entries |->
        [bbox |-> entries[i].bbox, cat_id |-> entries[i].cat_id,
         img_idx |-> lookup[entries[i].img_id], score |-> entries[i].score]]

\* Lines 193-197: the box length of the FIRST entry decides; the flag is only ever set.
OrientedAfterLoad(old, bbox_len) == IF bbox_len = 8 THEN TRUE ELSE old

\* Lines 193-195: the arity check, made on the first entry.
BboxLenAccepted(entries) == Len(entries[1].bbox) \in {4, 8}

load_proposals(props) ==
    /\ pc = "idle"
    /\ IF img_info = None
       THEN \* line 173
            /\ ret' = Raised("load_proposals", "AssertionError")
            /\ UNCHANGED <<proposals, props_oriented, prop_ann_set_idx>>
       ELSE IF props.annotation_set \notin Range(annotation_sets.val)
       THEN \* line 183: list.index raises
            /\ ret' = Raised("load_proposals", "ValueError")
            /\ UNCHANGED <<proposals, props_oriented, prop_ann_set_idx>>
       ELSE /\ prop_ann_set_idx' = PyInt(ListIndex(annotation_sets.val, props.annotation_set))
            /\ IF ~BboxLenAccepted(props.proposals)
               THEN /\ ret' = Raised("load_proposals", "AssertionError")
                    /\ UNCHANGED <<proposals, props_oriented>>
               ELSE /\ props_oriented' =
                           OrientedAfterLoad(props_oriented, Len(props.proposals[1].bbox))
                    /\ IF \E i \in DOMAIN props.proposals :
                              props.proposals[i].img_id \notin DOMAIN img_idx_lookup
                       THEN \* line 200
                            /\ ret' = Raised("load_proposals", "KeyError")
                            /\ UNCHANGED proposals
                       ELSE /\ proposals' = [type |-> "DataFrame",
                                             val |-> ProposalRows(props.proposals, img_idx_lookup)]
                            /\ ret' = Returned("load_proposals", None)
    /\ UNCHANGED <<annotation_sets, chosen_ann_set, img_info, img_idx_lookup, ann_info,
                   cat_info, classes_blacklist_id, runvars>>
    /\ UNCHANGED viewvars

(***************************************************************************)
(* The outcome of a helper: a value, or an exception.                      *)
(***************************************************************************)
Ok(v) == [ok |-> TRUE, val |-> v]
Err(e) == [ok |-> FALSE, exc |-> e]

(***************************************************************************)
(* get_ann_ids(ann_ids, ann_set_filter), get_anns(img_idx=...)             *)
(***************************************************************************)
\* Lines 308-311: the filter in force, as a list of names (None stays None).
EffectiveFilter(ann_set_filter) ==
    LET f == IF ann_set_filter = None THEN chosen_ann_set ELSE ann_set_filter
    IN  IF f = None THEN None
        ELSE IF f.type = "str" THEN PyList(<<f.val>>) ELSE f

\* Lines 315-318: the category ids of a row in the chosen sets, blacklisted ids left out.
filter_ids(record, ann_set_idx, blacklist) ==
    LET picked == [k \in DOMAIN ann_set_idx |-> record[ann_set_idx[k] + 1]]
    IN  SelectSeq(picked, LAMBDA c : c \notin blacklist)

get_ann_ids(ann_ids, ann_set_filter) ==
    IF ann_info = None THEN Err("AttributeError")
    ELSE IF \E i \in DOMAIN ann_ids : ann_ids[i] \notin DOMAIN ann_info.val THEN Err("KeyError")
    ELSE LET f == EffectiveFilter(ann_set_filter)
         IN  IF f = None THEN Err("TypeError")
             ELSE IF \E k \in DOMAIN f.val : f.val[k] \notin Range(annotation_sets.val)
             THEN Err("ValueError")   \* lines 312-313: list.index raises
             ELSE LET ann_set_idx == [k \in DOMAIN f.val |-> ListIndex(annotation_sets.val, f.val[k])]
                      rows == [i \in DOMAIN ann_ids |->
                                 [id |-> ann_ids[i],
                                  a_bbox |-> ann_info.val[ann_ids[i]].a_bbox,
                                  o_bbox |-> ann_info.val[ann_ids[i]].o_bbox,
                                  cat_id |-> filter_ids(ann_info.val[ann_ids[i]].cat_id,
                                                        ann_set_idx, classes_blacklist_id)]]
                  IN  Ok(SelectSeq(rows, LAMBDA r : Len(r.cat_id) > 0))

(***************************************************************************)
(* The getters with an index-based and an id-based selector.               *)
(***************************************************************************)
\* A check that passes as soon as one selector is given.
_xor_args_either(m, n) == m # None \/ n # None

\* Lines 94-97: whether the assertion passes.
_xor_args(m, n) == (m # None /\ n = None) \/ (m = None /\ n # None)

\* Lines 245-254.  idxs and ids are None or a list.
get_imgs(idxs, ids) ==
    IF ~_xor_args(idxs, ids) THEN Err("AssertionError")
    ELSE IF idxs # None
    THEN IF idxs.val # <<>> /\ img_info = None THEN Err("TypeError")
         ELSE IF \E k \in DOMAIN idxs.val : (idxs.val[k] + 1) \notin DOMAIN img_info.val
         THEN Err("IndexError")
         ELSE Ok([k \in DOMAIN idxs.val |-> img_info.val[idxs.val[k] + 1]])
    ELSE IF \E k \in DOMAIN ids.val : ids.val[k] \notin DOMAIN img_idx_lookup
         THEN Err("KeyError")
         ELSE Ok([k \in DOMAIN ids.val |-> img_info.val[img_idx_lookup[ids.val[k]] + 1]])

\* Lines 271-278.  img_idx and img_id are None or an int; indices are 0-based.
get_anns(img_idx, img_id, ann_set_filter) ==
    IF ~_xor_args(img_idx, img_id) THEN Err("AssertionError")
    ELSE IF img_idx # None
    THEN IF img_info = None THEN Err("TypeError")
         ELSE IF (img_idx.val + 1) \notin DOMAIN img_info.val THEN Err("IndexError")
         ELSE get_ann_ids(img_info.val[img_idx.val + 1].ann_ids, ann_set_filter)
    ELSE IF img_id.val \notin DOMAIN img_idx_lookup THEN Err("KeyError")
         ELSE get_ann_ids(img_info.val[img_idx_lookup[img_id.val] + 1].ann_ids, ann_set_filter)

\* Lines 343-349.
get_img_ann_pair(idxs, ids, ann_set_filter) ==
    IF ~_xor_args(idxs, ids) THEN Err("AssertionError")
    ELSE LET imgs == get_imgs(idxs, ids)
         IN  IF ~imgs.ok THEN imgs
             ELSE LET anns == [k \in DOMAIN imgs.val |->
                                  get_ann_ids(imgs.val[k].ann_ids, ann_set_filter)]
                  IN  IF \E k \in DOMAIN anns : ~anns[k].ok
                      THEN anns[CHOOSE k \in DOMAIN anns :
                                    ~anns[k].ok /\ \A j \in 1..(k - 1) : anns[j].ok]
                      ELSE Ok(<<imgs.val, [k \in DOMAIN anns |-> anns[k].val]>>)

\* Lines 363-370.
get_img_props(idxs, ids) ==
    IF ~_xor_args(idxs, ids) THEN Err("AssertionError")
    ELSE IF ids # None /\ \E k \in DOMAIN ids.val : ids.val[k] \notin DOMAIN img_idx_lookup
    THEN Err("KeyError")
    ELSE IF proposals = None THEN Err("AttributeError")
    ELSE LET wanted == IF ids # None
                       THEN {img_idx_lookup[ids.val[k]] : k \in DOMAIN ids.val}
                       ELSE Range(idxs.val)
         IN  Ok(SelectSeq(proposals.val, LAMBDA r : r.img_idx \in wanted))

(***************************************************************************)
(* Geometry.                                                               *)
(***************************************************************************)
\* The float "not a number".
NaN == <<0, 0>>

\* Lines 408-420; a is the ground truth's a_bbox (a list of Python numbers), b the
\* detection's bbox (a float32 array); 1-based here.  min and max hand back one of
\* their operands, the first when they are equal.  When the divisor is zero the
\* numerator is zero too: between Python numbers (the boxes agree in every
\* coordinate) the division raises, with a numpy operand it yields nan.
calculate_aligned_overlap(a, b) ==
    LET dx_int == Min2(a[3], b[3]) - Max2(a[1], b[1])
        dy_int == Min2(a[4], b[4]) - Max2(a[2], b[2])
        dx_ov == Max2(a[3], b[3]) - Min2(a[1], b[1])
        dy_ov == Max2(a[4], b[4]) - Min2(a[2], b[2])
    IN  IF dx_int >= 0 /\ dy_int >= 0
        THEN IF dx_ov * dy_ov # 0 THEN Ok(Frac(dx_int * dy_int, dx_ov * dy_ov))
             ELSE IF \A i \in 1..4 : a[i] = b[i] THEN Err("ZeroDivisionError")
             ELSE Ok(NaN)
        ELSE Ok(FZero)

SetMin(S) == CHOOSE x \in S : \A y \in S : x <= y
SetMax(S) == CHOOSE x \in S : \A y \in S : x >= y

\* The extents of a polygon given as 4 corner points.
PolyExtent(p) ==
    <<SetMin({p[1], p[3], p[5], p[7]}), SetMin({p[2], p[4], p[6], p[8]}),
      SetMax({p[1], p[3], p[5], p[7]}), SetMax({p[2], p[4], p[6], p[8]})>>

\* polyiou.iou_poly for two 8-coordinate polygons: intersection over union.  The
\* polygons of the model are axis-parallel rectangles.
iou_poly(p, q) ==
    LET a == PolyExtent(p)
        b == PolyExtent(q)
        dx == Min2(a[3], b[3]) - Max2(a[1], b[1])
        dy == Min2(a[4], b[4]) - Max2(a[2], b[2])
        inter == IF dx > 0 /\ dy > 0 THEN dx * dy ELSE 0
        union == (a[3] - a[1]) * (a[4] - a[2]) + (b[3] - b[1]) * (b[4] - b[2]) - inter
    IN  IF union = 0 THEN FZero ELSE Frac(inter, union)

\* What iou_poly may return when handed fewer than 8 coordinates: it reads past the
\* end of the vector, so any overlap value, or a crash.
UndefinedOverlaps == {FZero, Frac(1, 2), FOne}

(***************************************************************************)
(* calculate_tpfp(detection, img_gt)                                       *)
(***************************************************************************)
\* Line 445: the minimum overlap to reserve a ground truth.
ReserveThreshold == Frac(1, 5)

Unmatched == [bbox_id |-> -1, overlap |-> FZero]

\* Series.max(): the largest of a non-empty sequence of rationals.
SeqMax(ovs) == ovs[CHOOSE i \in DOMAIN ovs : \A j \in DOMAIN ovs : FLeq(ovs[j], ovs[i])]

\* Series.idxmax(): the position of the first occurrence of the maximum.
IdxMax(ovs) ==
    CHOOSE i \in DOMAIN ovs :
        /\ \A j \in DOMAIN ovs : FLeq(ovs[j], ovs[i])
        /\ \A j \in 1..(i - 1) : FLess(ovs[j], ovs[i])

\* Lines 443-451: the best candidate if its overlap exceeds the threshold.
BestMatch(same_cat_gt, ovs) ==
    LET max_overlap == SeqMax(ovs)
    IN  IF FLess(ReserveThreshold, max_overlap)
        THEN [bbox_id |-> same_cat_gt[IdxMax(ovs)].id, overlap |-> max_overlap]
        ELSE Unmatched

\* Lines 423-424: the candidates of the detection's category (the row's first id).
SameCatGt(detection, gt) == SelectSeq(gt, LAMBDA r : r.cat_id[1] = detection.cat_id)

\* Lines 427-431: the oriented branch builds the 'det' column as a list of ONE
\* element (the box times the number of candidates), so the frame cannot be built
\* for two or more candidates.
OrientedOutcomes(detection, same_cat_gt) ==
    IF Len(same_cat_gt) # 1 THEN {Err("ValueError")}
    ELSE IF Len(detection.bbox) < 8
    THEN {Ok(BestMatch(same_cat_gt, <<ov>>)) : ov \in UndefinedOverlaps} \cup {Err("crash")}
    ELSE {Ok(BestMatch(same_cat_gt, <<iou_poly(same_cat_gt[1].o_bbox, detection.bbox)>>))}

\* Lines 433-451.  Series.max and Series.idxmax skip nan; with nothing but nan the
\* maximum is nan, which is not above the threshold.
AlignedOutcomes(detection, same_cat_gt) ==
    IF Len(detection.bbox) < 4 THEN {Err("IndexError")}
    ELSE LET ovs == <<>> \o [i \in DOMAIN same_cat_gt |->
                         calculate_aligned_overlap(same_cat_gt[i].a_bbox, detection.bbox)]
             known == SelectSeq(<<>> \o [i \in DOMAIN ovs |-> <<same_cat_gt[i], ovs[i]>>],
                                LAMBDA x : x[2].ok /\ x[2].val # NaN)
         IN  IF \E i \in DOMAIN ovs : ~ovs[i].ok THEN {Err("ZeroDivisionError")}
             ELSE IF known = <<>> THEN {Ok(Unmatched)}
             ELSE {Ok(BestMatch([i \in DOMAIN known |-> known[i][1]],
                                [i \in DOMAIN known |-> known[i][2].val]))}

\* The outcomes of calculate_tpfp: one, unless the geometry call is undefined.
calculate_tpfp(detection, gt) ==
    LET same_cat_gt == SameCatGt(detection, gt)
    IN  IF Len(same_cat_gt) = 0 THEN {Ok(Unmatched)}
        ELSE IF props_oriented THEN OrientedOutcomes(detection, same_cat_gt)
        ELSE AlignedOutcomes(detection, same_cat_gt)

(***************************************************************************)
(* _average_precision(recalls, precisions, mode) (lines 547-592)           *)
(***************************************************************************)
\* Lines 574-575: the running maximum from the right.
RECURSIVE Envelope(_)
Envelope(mpre) ==
    IF Len(mpre) = 1 THEN mpre
    ELSE LET rest == Envelope(Tail(mpre))
         IN  <<FMax(mpre[1], rest[1])>> \o rest

\* Lines 576-579: the area under the enveloped curve, summed where recall changes.
RECURSIVE AreaFrom(_, _, _)
AreaFrom(mrec, env, i) ==
    IF i >= Len(mrec) THEN FZero
    ELSE FAdd(IF mrec[i + 1] # mrec[i] THEN FMul(FSub(mrec[i + 1], mrec[i]), env[i + 1]) ELSE FZero,
              AreaFrom(mrec, env, i + 1))

\* Lines 580-586: the mean, over the recall levels 0, 1/10, ..., 1, of the largest
\* precision among the positions whose recall reaches the level (0 if none does).
ElevenPoints(recalls, precisions) ==
    LET prec(k) ==
            LET at == SelectSeq(<<>> \o [i \in DOMAIN recalls |->
                                            IF FLeq(Frac(k, 10), recalls[i])
                                            THEN precisions[i] ELSE <<-1, 1>>],
                                LAMBDA x : x # <<-1, 1>>)
            IN  IF at = <<>> THEN FZero ELSE SeqMax(at)
    IN  FDivInt(FSum(<<>> \o [k \in 1..11 |-> prec(k - 1)]), 11)

\* The modes _average_precision knows (lines 569 and 580).
ApModes == {"area", "11points"}

\* An evaluator that takes every unknown mode for 'area'.
_average_precision_any_mode(recalls, precisions, mode) ==
    IF Len(recalls) # Len(precisions) THEN Err("AssertionError")
    ELSE IF mode = "11points" THEN Ok(ElevenPoints(recalls, precisions))
    ELSE Ok(AreaFrom(<<FZero>> \o recalls \o <<FOne>>,
                     Envelope(<<FZero>> \o precisions \o <<FZero>>), 1))

\* Lines 547-592.  recalls and precisions are sequences of one length.
_average_precision(recalls, precisions, mode) ==
    IF Len(recalls) # Len(precisions) THEN Err("AssertionError")   \* line 566
    ELSE IF mode = "area"
    THEN LET mrec == <<FZero>> \o recalls \o <<FOne>>
             mpre == <<FZero>> \o precisions \o <<FZero>>
         IN  Ok(AreaFrom(mrec, Envelope(mpre), 1))
    ELSE IF mode = "11points" THEN Ok(ElevenPoints(recalls, precisions))
    ELSE Err("ValueError")   \* lines 587-589

(***************************************************************************)
(* _evaluate_overlaps(overlaps, iou_thrs, by_class) (lines 506-545)        *)
(***************************************************************************)
\* The one-to-one maps of 1..n onto itself.
Bijections(n) == {f \in [1..n -> 1..n] : \A i, j \in 1..n : i # j => f[i] # f[j]}

\* Line 512: argsort()[::-1] orders by score, largest first.  numpy's default sort
\* is not stable: records of equal score may come out in any order.
DescendingOrders(recs) ==
    {<<>> \o [i \in DOMAIN recs |-> recs[f[i]]] :
        f \in {g \in Bijections(Len(recs)) :
                  \A i \in 1..(Len(recs) - 1) : recs[g[i]].score >= recs[g[i + 1]].score}}

\* np.cumsum of a sequence of 0s and 1s.
RECURSIVE CumSum(_, _)
CumSum(flags, acc) ==
    IF flags = <<>> THEN <<>>
    ELSE <<acc + flags[1]>> \o CumSum(Tail(flags), acc + flags[1])

\* Lines 514-518: the cumulative true and false positives for threshold iou_thr.
TpSum(recs, iou_thr) ==
    CumSum(<<>> \o [i \in DOMAIN recs |-> IF FLeq(iou_thr, recs[i].overlap) THEN 1 ELSE 0], 0)
FpSum(recs, iou_thr) ==
    CumSum(<<>> \o [i \in DOMAIN recs |-> IF FLess(recs[i].overlap, iou_thr) THEN 1 ELSE 0], 0)

\* Recall as the share of the records that are true positives.
RecallSeqOverRecords(tp_sum, nr_gt) ==
    <<>> \o [i \in DOMAIN tp_sum |-> Frac(tp_sum[i], Len(tp_sum))]

\* Recall that takes an empty scope for a scope of one ground truth.
RecallSeqScopeAtLeastOne(tp_sum, nr_gt) ==
    <<>> \o [i \in DOMAIN tp_sum |-> Frac(tp_sum[i], Max2(nr_gt, 1))]

\* Lines 532-535.
RecallSeq(tp_sum, nr_gt) ==
    <<>> \o [i \in DOMAIN tp_sum |-> IF nr_gt > 0 THEN Frac(tp_sum[i], nr_gt) ELSE FZero]

\* Line 536.
PrecisionSeq(tp_sum, fp_sum) ==
    <<>> \o [i \in DOMAIN tp_sum |-> Frac(tp_sum[i], fp_sum[i] + tp_sum[i])]

\* Lines 514-544: the entry of one threshold, for records already in order.
ThresholdEntry(recs, iou_thr, nr_gt) ==
    LET tp_sum == TpSum(recs, iou_thr)
        fp_sum == FpSum(recs, iou_thr)
        recall == RecallSeq(tp_sum, nr_gt)
        precision == PrecisionSeq(tp_sum, fp_sum)
    IN  [ap |-> _average_precision(recall, precision, "area").val,   \* lines 539-540: the default mode
         precision |-> FAverage(precision),
         recall |-> FAverage(recall)]

\* The annotation table's rows in index order, each with its FIRST category id.
AnnFirstCats == [k \in DOMAIN ann_info.val |-> ann_info.val[k].cat_id[1]]

\* Lines 522-530: the number of ground truths in scope, as a set of outcomes.
\* by_class is None or a class index; the aggregate call of calculate_metrics hands
\* in the tuple of thresholds instead, which is compared with the column element by
\* element.  A tuple of one element is broadcast.  When the lengths differ numpy
\* either refuses the comparison (ValueError) or reports it as failed, which pandas
\* turns into "no row equal": which of the two depends on the numpy in use.
NrGt(by_class) ==
    IF by_class = None THEN {Ok(Cardinality(DOMAIN ann_info.val))}
    ELSE IF by_class.type = "float"
    THEN {Ok(Cardinality({k \in DOMAIN AnnFirstCats : AnnFirstCats[k] = by_class.val}))}
    ELSE IF Len(by_class.val) = 1
    THEN {Ok(Cardinality({k \in DOMAIN AnnFirstCats : FInt(AnnFirstCats[k]) = by_class.val[1]}))}
    ELSE IF Len(by_class.val) = Len(AnnFirstCats)
    THEN {Ok(Cardinality({k \in DOMAIN AnnFirstCats : FInt(AnnFirstCats[k]) = by_class.val[k]}))}
    ELSE {Err("ValueError"), Ok(0)}

\* The loop of line 509 from threshold k on.  Each iteration re-sorts the records
\* (line 512) and stores its entry under the threshold.  As the order among equal
\* scores is not determined by the order the sort is handed, every iteration may
\* see any of `orders`, the descending orders of the records.
RECURSIVE MetricsFrom(_, _, _, _, _)
MetricsFrom(orders, iou_thrs, k, nr_gt, metrics) ==
    IF k > Len(iou_thrs) THEN {metrics}
    ELSE UNION {MetricsFrom(orders, iou_thrs, k + 1, nr_gt, (iou_thrs[k] :> entry) @@ metrics) :
                entry \in {ThresholdEntry(sorted, iou_thrs[k], nr_gt) : sorted \in orders}}

_evaluate_overlaps(recs, iou_thrs, by_class) ==
    LET orders == DescendingOrders(recs)
    IN  UNION {IF ~nr_gt.ok THEN {nr_gt}
               ELSE {Ok(m) : m \in MetricsFrom(orders, iou_thrs, 1, nr_gt.val, <<>>)} :
               nr_gt \in NrGt(by_class)}

(***************************************************************************)
(* calculate_metrics(iou_thrs, classwise, average_thrs) (lines 372-504)    *)
(***************************************************************************)
\* The threshold tuples a caller passes: the default (0.5, 0.55), and (0.25,).
IouThrArgs == {<<Frac(1, 2), Frac(11, 20)>>, <<Frac(1, 4)>>}
CalcArgs == [iou_thrs : IouThrArgs, classwise : BOOLEAN, average_thrs : BOOLEAN]

\* The image index of every row, an image as often as it has proposals.
ImageOfEveryRow(rows) == [i \in DOMAIN rows |-> rows[i].img_idx]

\* Line 456: np.unique, the distinct image indices in ascending order.
UniqueImages(rows) ==
    LET S == {rows[i].img_idx : i \in DOMAIN rows}
    IN  CHOOSE q \in [1..Cardinality(S) -> S] : \A i, j \in DOMAIN q : i < j => q[i] < q[j]

\* Line 457: value_counts, the number of proposals of each category, largest first.
TotProps(rows) ==
    LET S == {rows[i].cat_id : i \in DOMAIN rows}
        count(c) == Cardinality({i \in DOMAIN rows : rows[i].cat_id = c})
        q == CHOOSE r \in [1..Cardinality(S) -> S] :
                 \A i, j \in DOMAIN r :
                     i < j => (count(r[i]) > count(r[j]) \/ (count(r[i]) = count(r[j]) /\ r[i] < r[j]))
    IN  [i \in DOMAIN q |-> FInt(count(q[i]))]

\* The rows of one image with the largest score first.
SortedImgPropsDescending(rows, img_idx) ==
    LET S == {i \in DOMAIN rows : rows[i].img_idx = img_idx}
    IN  {q \in [1..Cardinality(S) -> S] :
            /\ \A i, j \in DOMAIN q : i # j => q[i] # q[j]
            /\ \A i \in 1..(Cardinality(S) - 1) : rows[q[i]].score >= rows[q[i + 1]].score}

\* Lines 462 and 465: the rows of one image (by position in the table) in ascending
\* score order.  sort_values uses numpy's default sort, which is not stable: rows
\* of equal score may come out in any order.
SortedImgProps(rows, img_idx) ==
    LET S == {i \in DOMAIN rows : rows[i].img_idx = img_idx}
    IN  {q \in [1..Cardinality(S) -> S] :
            /\ \A i, j \in DOMAIN q : i # j => q[i] # q[j]
            /\ \A i \in 1..(Cardinality(S) - 1) : rows[q[i]].score <= rows[q[i + 1]].score}

\* A pool that keeps a matched ground truth.
DropGtKeepsAll(gt, val) == gt

\* Line 474: DataFrame.drop(val).
DropGt(gt, val) == SelectSeq(gt, LAMBDA r : r.id # val)

\* A table that loses the matched row with the pool.
AnnInfoLosesRow(table, val) ==
    [type |-> "DataFrame", val |-> [i \in (DOMAIN table.val) \ {val} |-> table.val[i]]]

\* Line 474 for self.ann_info: drop returns a new frame, which is bound to the local
\* name img_gt; the table the frame was selected from keeps every row.
AnnInfoAfterDrop(table, val) == table

\* Lines 471-472: the overlap record of a detection.
OverlapRecord(tpfp, det) ==
    [bbox_id |-> tpfp.bbox_id, overlap |-> tpfp.overlap, cat_id |-> det.cat_id, score |-> det.score]

\* Lines 479-491.  The aggregate call hands tot_props in the place of iou_thrs and
\* iou_thrs in the place of by_class.
ResultsDict(recs, rows, iou_thrs, classwise) ==
    IF classwise
    THEN LET keys == {recs[i].cat_id : i \in DOMAIN recs}
             per == [c \in keys |->
                        _evaluate_overlaps(SelectSeq(recs, LAMBDA r : r.cat_id = c), iou_thrs,
                                           [type |-> "float", val |-> c])] @@ <<>>
             all == UNION {per[c] : c \in keys}
             bad == {o \in all : ~o.ok}
         IN  IF bad # {} THEN bad
             ELSE {Ok(g) : g \in {h \in [keys -> {o.val : o \in all}] :
                                     \A c \in keys : Ok(h[c]) \in per[c]}}
    ELSE {IF o.ok THEN Ok([k \in {"average"} |-> o.val]) ELSE o :
             o \in _evaluate_overlaps(recs, TotProps(rows), [type |-> "tuple", val |-> iou_thrs])}

\* The keys summed by the averaging loop (lines 495-497).
AveragedKeys == {"accuracy", "precision", "recall"}

RECURSIVE SumOver(_, _, _)
SumOver(tresh_dict, key, T) ==
    IF T = {} THEN FZero
    ELSE LET t == CHOOSE x \in T : TRUE
         IN  FAdd(tresh_dict[t][key], SumOver(tresh_dict, key, T \ {t}))

\* Lines 493-503: each per-threshold mapping replaced by the mean of its entries.
AverageThresholds(results_dict) ==
    IF \E c \in DOMAIN results_dict : \E t \in DOMAIN results_dict[c] :
           ~(AveragedKeys \subseteq DOMAIN results_dict[c][t])
    THEN Err("KeyError")            \* line 500: eval_dict[key]
    ELSE IF \E c \in DOMAIN results_dict : DOMAIN results_dict[c] = {}
    THEN Err("ZeroDivisionError")   \* line 502
    ELSE Ok([c \in DOMAIN results_dict |->
                [key \in AveragedKeys |->
                    FDivInt(SumOver(results_dict[c], key, DOMAIN results_dict[c]),
                            Cardinality(DOMAIN results_dict[c]))]])

\* What calculate_metrics can return or raise once the records are collected.
ReportOutcomes(recs, rows, args) ==
    {IF o.ok /\ args.average_thrs THEN AverageThresholds(o.val) ELSE o :
        o \in ResultsDict(recs, rows, args.iou_thrs, args.classwise)}

ResetRun ==
    /\ pc' = "idle"
    /\ todo_imgs' = <<>>
    /\ img_gt' = <<>>
    /\ img_props' = <<>>
    /\ overlaps' = <<>>

\* Lines 455-457: the call starts.
calculate_metrics_begin ==
    /\ pc = "idle"
    /\ IF proposals = None
       THEN /\ ret' = Raised("calculate_metrics", "TypeError")
            /\ UNCHANGED runvars
       ELSE /\ pc' = "images"
            /\ todo_imgs' = UniqueImages(proposals.val)
            /\ overlaps' = <<>>
            /\ ret' = Running("calculate_metrics")
            /\ UNCHANGED <<img_gt, img_props>>
    /\ UNCHANGED objvars
    /\ UNCHANGED viewvars

\* Lines 459-465: the next image of the loop.
calculate_metrics_image ==
    /\ pc = "images"
    /\ img_props = <<>>
    /\ todo_imgs # <<>>
    /\ LET got == get_anns(PyInt(Head(todo_imgs)), None, None)
       IN  IF ~got.ok
           THEN ret' = Raised("calculate_metrics", got.exc) /\ ResetRun
           ELSE /\ img_gt' = got.val
                /\ img_props' \in SortedImgProps(proposals.val, Head(todo_imgs))
                /\ todo_imgs' = Tail(todo_imgs)
                /\ UNCHANGED <<pc, overlaps, ret>>
    /\ UNCHANGED objvars
    /\ UNCHANGED viewvars

\* Lines 468-474: one detection of the image.
calculate_metrics_detection ==
    /\ pc = "images"
    /\ img_props # <<>>
    /\ LET det == proposals.val[Head(img_props)]
       IN  \E tpfp \in calculate_tpfp(det, img_gt) :
               IF ~tpfp.ok
               THEN /\ ret' = Raised("calculate_metrics", tpfp.exc)
                    /\ ResetRun
                    /\ UNCHANGED ann_info
               ELSE /\ overlaps' = Append(overlaps, OverlapRecord(tpfp.val, det))
                    /\ img_gt' = IF tpfp.val.bbox_id # -1
                                  THEN DropGt(img_gt, tpfp.val.bbox_id) ELSE img_gt
                    /\ ann_info' = IF tpfp.val.bbox_id # -1
                                    THEN AnnInfoAfterDrop(ann_info, tpfp.val.bbox_id)
                                    ELSE ann_info
                    /\ img_props' = Tail(img_props)
                    /\ UNCHANGED <<pc, todo_imgs, ret>>
    /\ UNCHANGED <<annotation_sets, chosen_ann_set, img_info, img_idx_lookup, cat_info,
                   classes_blacklist_id, proposals, props_oriented, prop_ann_set_idx>>
    /\ UNCHANGED viewvars

\* Lines 477-504: the report.  The arguments are first read here.
calculate_metrics_report(args) ==
    /\ pc = "images"
    /\ img_props = <<>>
    /\ todo_imgs = <<>>
    /\ \E o \in ReportOutcomes(overlaps, proposals.val, args) :
           ret' = IF o.ok THEN ReturnedOn("calculate_metrics", args, o.val)
                          ELSE RaisedOn("calculate_metrics", args, o.exc)
    /\ ResetRun
    /\ UNCHANGED objvars
    /\ UNCHANGED viewvars

(***************************************************************************)
(* The object used as its documentation describes: annotations, then one   *)
(* proposal file, then metrics; filters at any time between calls.         *)
(***************************************************************************)
Next ==
    \/ load_annotations(None)
    \/ \E f \in {PyList(<<"muscima++">>), PyList(<<"lilypond">>)} : set_annotation_set_filter(f)
    \/ proposals = None /\ \E props \in UniformFiles : load_proposals(props)
    \/ calculate_metrics_begin
    \/ calculate_metrics_image
    \/ calculate_metrics_detection
    \/ \E args \in CalcArgs : calculate_metrics_report(args)

Spec == Init /\ [][Next]_vars

(***************************************************************************)
(* The object under any sequence of calls: annotations loaded with any     *)
(* filter, proposal files of any make loaded one after another, the filter *)
(* set to any name, the getters called with any selectors.                 *)
(***************************************************************************)
\* Entries with a 4-coordinate, an 8-coordinate and a 3-coordinate box.
Entry4 == [bbox |-> ABox(RShift), cat_id |-> 2, img_id |-> 11, score |-> 1]
Entry8 == [bbox |-> OBox(RShift), cat_id |-> 2, img_id |-> 11, score |-> 1]
Entry3 == [bbox |-> <<0, 0, 10>>, cat_id |-> 2, img_id |-> 11, score |-> 2]
Entry4Big == [bbox |-> ABox(RBig), cat_id |-> 1, img_id |-> 10, score |-> 2]
Entry8Lost == [bbox |-> OBox(RBig), cat_id |-> 1, img_id |-> 12, score |-> 1]

\* Two detections of class 2 of the second annotation set, on image 0.
EntryMuLow == [bbox |-> ABox(RBig), cat_id |-> 2, img_id |-> 10, score |-> 1]
EntryMuHigh == [bbox |-> ABox(RBig), cat_id |-> 2, img_id |-> 10, score |-> 2]

\* Two detections of class 1 and of one score on different images: the first fits a
\* ground truth, the second has none of its class on its image.
EntryTieHit == [bbox |-> ABox(RBig), cat_id |-> 1, img_id |-> 10, score |-> 1]
EntryTieMiss == [bbox |-> ABox(RBig), cat_id |-> 1, img_id |-> 11, score |-> 1]

\* Proposal files: of one arity, of mixed arity, with a malformed box first or
\* later, for an unknown annotation set, for an unknown image, for the second
\* annotation set, with equal scores on two images.
AnyFiles ==
    {[annotation_set |-> "deepscores", proposals |-> ps] :
        ps \in {<<Entry4>>, <<Entry8>>, <<Entry8, Entry4Big>>, <<Entry4, Entry8>>,
                <<Entry3>>, <<Entry4, Entry3>>, <<Entry8Lost>>}}
    \cup {[annotation_set |-> "lilypond", proposals |-> <<Entry4>>]}
    \cup {[annotation_set |-> "muscima++", proposals |-> <<EntryMuLow, EntryMuHigh>>]}
    \cup {[annotation_set |-> "deepscores", proposals |-> <<EntryTieHit, EntryTieMiss>>]}

\* The selectors a caller passes: none, or a list of one image.
IdxsArgs == {None, PyList(<<0>>)}
IdsArgs == {None, PyList(<<10>>)}
ImgIdxArgs == {None, PyInt(0)}
ImgIdArgs == {None, PyInt(10)}

\* The outcome of a getter as the caller sees it.
GetterOutcome(op, args, o) ==
    IF o.ok THEN ReturnedOn(op, args, o.val) ELSE RaisedOn(op, args, o.exc)

call_get_imgs(idxs, ids) ==
    /\ pc = "idle"
    /\ ret' = GetterOutcome("get_imgs", <<idxs, ids>>, get_imgs(idxs, ids))
    /\ UNCHANGED <<objvars, runvars>>
    /\ UNCHANGED viewvars

call_get_anns(img_idx, img_id) ==
    /\ pc = "idle"
    /\ ret' = GetterOutcome("get_anns", <<img_idx, img_id>>, get_anns(img_idx, img_id, None))
    /\ UNCHANGED <<objvars, runvars>>
    /\ UNCHANGED viewvars

call_get_img_ann_pair(idxs, ids) ==
    /\ pc = "idle"
    /\ ret' = GetterOutcome("get_img_ann_pair", <<idxs, ids>>, get_img_ann_pair(idxs, ids, None))
    /\ UNCHANGED <<objvars, runvars>>
    /\ UNCHANGED viewvars

call_get_img_props(idxs, ids) ==
    /\ pc = "idle"
    /\ ret' = GetterOutcome("get_img_props", <<idxs, ids>>, get_img_props(idxs, ids))
    /\ UNCHANGED <<objvars, runvars>>
    /\ UNCHANGED viewvars

\* Lines 372-373: the signature takes iou_thrs, classwise and average_thrs and has
\* no parameter for the AP mode (line 539 calls _average_precision without one).  A
\* call that passes a mode is refused by Python before the body runs.
calculate_metrics_mode(mode) ==
    /\ pc = "idle"
    /\ ret' = RaisedOn("calculate_metrics", [mode |-> mode], "TypeError")
    /\ UNCHANGED <<objvars, runvars>>
    /\ UNCHANGED viewvars

\* The arguments of calculate_metrics used here.
PlainCalcArgs == {[iou_thrs |-> <<Frac(1, 4)>>, classwise |-> TRUE, average_thrs |-> FALSE]}

NextCalls ==
    \/ \E f \in LoadFilterArgs : load_annotations(f)
    \/ \E f \in SetFilterArgs : set_annotation_set_filter(f)
    \/ \E props \in AnyFiles : load_proposals(props)
    \/ \E idxs \in IdxsArgs, ids \in IdsArgs : call_get_imgs(idxs, ids)
    \/ \E img_idx \in ImgIdxArgs, img_id \in ImgIdArgs : call_get_anns(img_idx, img_id)
    \/ \E idxs \in IdxsArgs, ids \in IdsArgs : call_get_img_ann_pair(idxs, ids)
    \/ \E idxs \in IdxsArgs, ids \in IdsArgs : call_get_img_props(idxs, ids)
    \/ calculate_metrics_begin
    \/ calculate_metrics_image
    \/ calculate_metrics_detection
    \/ \E args \in PlainCalcArgs : calculate_metrics_report(args)
    \/ \E mode \in ApModes : calculate_metrics_mode(mode)

SpecCalls == Init /\ [][NextCalls]_vars

(***************************************************************************)
(* The evaluator and the geometry called on their own: the annotations are *)
(* loaded, `overlaps` holds a collection of records, and one call leaves   *)
(* its outcome in `ret`.                                                   *)
(***************************************************************************)
\* The largest number of records of a collection.
MaxRecs == 3

\* Records [bbox_id, overlap, cat_id, score]: unmatched, matched at 1/2, matched at 1.
EvalRecordPool ==
    {[bbox_id |-> m[1], overlap |-> m[2], cat_id |-> 1, score |-> sc] :
        m \in {<<-1, FZero>>, <<1, Frac(1, 2)>>, <<2, FOne>>}, sc \in DetScores}

\* The thresholds and the classes handed to _evaluate_overlaps.  The dataset has
\* four annotations: three of class 1, one of class 2, none of class 3.
EvalThrArgs == {<<FZero>>, <<Frac(1, 2), FOne>>}
ByClassArgs == {None} \cup {[type |-> "float", val |-> c] : c \in 1..3}

\* The arguments handed to _average_precision.
CurveArgs == {<<Frac(1, 2)>>, <<Frac(1, 2), FOne>>, <<FOne, FOne>>}
ModeArgs == ApModes \cup {"trapezoid"}

\* The boxes handed to calculate_aligned_overlap: two of positive area, one of zero
\* width, one of zero height, one point.
BoxArgs == {RBig, RHalf, <<0, 0, 0, 10>>, <<0, 5, 10, 5>>, <<3, 3, 3, 3>>}

InitEval ==
    /\ annotation_sets = PyList(DataAnnotationSets)
    /\ chosen_ann_set = PyList(DataAnnotationSets)
    /\ img_info = PyList(DataImages)
    /\ img_idx_lookup = LookupAfterLoad(<<>>, DataImages)
    /\ ann_info = [type |-> "DataFrame", val |-> DataAnnotations]
    /\ cat_info = [type |-> "dict", val |-> DataCategories]
    /\ classes_blacklist_id = {}
    /\ proposals = None
    /\ props_oriented = FALSE
    /\ prop_ann_set_idx = None
    /\ pc = "direct"
    /\ todo_imgs = <<>>
    /\ img_gt = <<>>
    /\ img_props = <<>>
    /\ overlaps \in SeqsUpTo(EvalRecordPool, MaxRecs)
    /\ ret = ReturnedOn("load_annotations", None, None)
    /\ view = 0
    /\ kn = PyInt(0)

call_evaluate_overlaps(iou_thrs, by_class) ==
    /\ pc = "direct"
    /\ \E o \in _evaluate_overlaps(overlaps, iou_thrs, by_class) :
           ret' = GetterOutcome("_evaluate_overlaps",
                                [iou_thrs |-> iou_thrs, by_class |-> by_class], o)
    /\ pc' = "returned"
    /\ UNCHANGED <<objvars, todo_imgs, img_gt, img_props, overlaps>>
    /\ UNCHANGED viewvars

call_average_precision(recalls, precisions, mode) ==
    /\ pc = "direct"
    /\ ret' = GetterOutcome("_average_precision",
                            [recalls |-> recalls, precisions |-> precisions, mode |-> mode],
                            _average_precision(recalls, precisions, mode))
    /\ pc' = "returned"
    /\ UNCHANGED <<objvars, todo_imgs, img_gt, img_props, overlaps>>
    /\ UNCHANGED viewvars

call_calculate_aligned_overlap(a, b) ==
    /\ pc = "direct"
    /\ ret' = GetterOutcome("calculate_aligned_overlap", <<a, b>>,
                            calculate_aligned_overlap(a, b))
    /\ pc' = "returned"
    /\ UNCHANGED <<objvars, todo_imgs, img_gt, img_props, overlaps>>
    /\ UNCHANGED viewvars

NextEval ==
    \/ \E iou_thrs \in EvalThrArgs, by_class \in ByClassArgs :
           call_evaluate_overlaps(iou_thrs, by_class)
    \/ \E recalls \in CurveArgs, precisions \in CurveArgs, mode \in ModeArgs :
           call_average_precision(recalls, precisions, mode)
    \/ \E a \in BoxArgs, b \in BoxArgs : call_calculate_aligned_overlap(a, b)

SpecEval == InitEval /\ [][NextEval]_vars

(***************************************************************************)
(* DeepScoresV2.visualize_annotation(annfile, out_dir, image)              *)
(* (src/tools/deepscoresV2.py, lines 113-133): the viewer that shows one   *)
(* image of an annotation file and moves on the arrow keys.  The image     *)
(* files of the dataset exist, so that ob.visualize fails only on an index *)
(* that is not in the image list.                                          *)
(***************************************************************************)
\* The largest number of images of the annotation file on view.
MaxImgs == 5

\* data['images'] of an annotation file of n images: the images of the dataset,
\* then images without annotations.  A file name is written as a number.
ViewImages(n) ==
    [k \in 1..n |-> [id |-> 9 + k,
                     filename |-> 9 + k,
                     ann_ids |-> IF k \in DOMAIN DataImages THEN DataImages[k].ann_ids
                                 ELSE <<>>]]

\* The image argument: none, or a file name, of the list or not.
ImageArgs == {None} \cup {PyInt(f) : f \in 10..(10 + MaxImgs)}

\* The keys keyboard.read_key reports: the five the loop waits for, and another.
Keys == {"up", "down", "left", "right", "esc", "a"}

\* Line 116.
max_size == Len(img_info.val)

\* Lines 117-121: the position of the last image of that file name, 0 without one.
StartView(image, images) ==
    LET hits == {k \in DOMAIN images : image # None /\ images[k].filename = image.val}
    IN  IF hits = {} THEN 0 ELSE (CHOOSE k \in hits : \A j \in hits : j <= k) - 1

\* Lines 114-122: the object after OBBAnns(annfile) and load_annotations(), and
\* the locals before the loop.
InitView ==
    \E n \in 1..MaxImgs, image \in ImageArgs :
        /\ annotation_sets = PyList(DataAnnotationSets)
        /\ chosen_ann_set = PyList(DataAnnotationSets)
        /\ img_info = PyList(ViewImages(n))
        /\ img_idx_lookup = LookupAfterLoad(<<>>, ViewImages(n))
        /\ ann_info = [type |-> "DataFrame", val |-> DataAnnotations]
        /\ cat_info = [type |-> "dict", val |-> DataCategories]
        /\ classes_blacklist_id = {}
        /\ proposals = None
        /\ props_oriented = FALSE
        /\ prop_ann_set_idx = None
        /\ pc = "visualize"
        /\ todo_imgs = <<>>
        /\ img_gt = <<>>
        /\ img_props = <<>>
        /\ overlaps = <<>>
        /\ ret = Running("visualize_annotation")
        /\ view = StartView(image, ViewImages(n))
        /\ kn = PyInt(0)

\* Line 124: ob.visualize(img_idx=view, ...).  OBBAnns.visualize makes the first
\* annotation set the filter (obb_anns.py, line 746) and fetches the image and its
\* annotations by index (lines 751-753); an exception ends visualize_annotation.
view_visualize ==
    /\ pc = "visualize"
    /\ chosen_ann_set' = PyStr(annotation_sets.val[1])
    /\ LET got == get_img_ann_pair(PyList(<<view>>), None, PyStr(annotation_sets.val[1]))
       IN  IF got.ok
           THEN pc' = "read_key" /\ UNCHANGED ret
           ELSE pc' = "idle" /\ ret' = Raised("visualize_annotation", got.exc)
    /\ UNCHANGED <<annotation_sets, img_info, img_idx_lookup, ann_info, cat_info,
                   classes_blacklist_id, proposals, props_oriented, prop_ann_set_idx,
                   todo_imgs, img_gt, img_props, overlaps, viewvars>>

\* Whether kn is one of the keys.
KeyIn(k, keys) == k.type = "str" /\ k.val \in keys

\* Line 125: keys are read until one of the five is read.
view_read_key(key) ==
    /\ pc = "read_key"
    /\ kn' = PyStr(key)
    /\ pc' = IF key \in {"up", "down", "left", "right", "esc"} THEN "dispatch" ELSE "read_key"
    /\ UNCHANGED <<objvars, todo_imgs, img_gt, img_props, overlaps, ret, view>>

\* Lines 126-127.
ViewUp(v) == IF v = 0 THEN 0 ELSE v - 1

\* Lines 128-129.
ViewDown(v, size) == IF v = size THEN size ELSE v + 1

\* Lines 126-132: the key moves the view or ends the loop.
view_dispatch ==
    /\ pc = "dispatch"
    /\ IF KeyIn(kn, {"up", "left"})
       THEN view' = ViewUp(view) /\ kn' = PyInt(0) /\ pc' = "visualize" /\ UNCHANGED ret
       ELSE IF KeyIn(kn, {"down", "right"})
       THEN /\ view' = ViewDown(view, max_size)
            /\ kn' = PyInt(0) /\ pc' = "visualize" /\ UNCHANGED ret
       ELSE /\ pc' = "idle"
            /\ ret' = Returned("visualize_annotation", None)
            /\ UNCHANGED viewvars
    /\ UNCHANGED <<objvars, todo_imgs, img_gt, img_props, overlaps>>

NextView ==
    \/ view_visualize
    \/ \E key \in Keys : view_read_key(key)
    \/ view_dispatch

SpecView == InitView /\ [][NextView]_vars

(***************************************************************************)
(* The records of a run, image by image.  While the loop runs, `overlaps`  *)
(* holds one record per detection handled so far, in the order handled:    *)
(* the records of the images done, then those of the image in hand.        *)
(***************************************************************************)
StartedImgs ==
    LET u == UniqueImages(proposals.val)
    IN  SubSeq(u, 1, Len(u) - Len(todo_imgs))

RowsOfImg(img_idx) ==
    Cardinality({i \in DOMAIN proposals.val : proposals.val[i].img_idx = img_idx})

RECURSIVE RecordsBefore(_)
RecordsBefore(k) ==
    IF k <= 1 THEN 0 ELSE RecordsBefore(k - 1) + RowsOfImg(StartedImgs[k - 1])

\* The records of the k-th started image.
ImgRecords(k) ==
    SubSeq(overlaps, RecordsBefore(k) + 1,
           Min2(RecordsBefore(k) + RowsOfImg(StartedImgs[k]), Len(overlaps)))

\* The records of the image in hand.
CurrentRecords == IF StartedImgs = <<>> THEN <<>> ELSE ImgRecords(Len(StartedImgs))

PoolIds == {img_gt[r].id : r \in DOMAIN img_gt}

\* C1: within one image of a calculate_metrics run no ground-truth id is recorded
\* as the match of two detections, and an id recorded for the image in hand is no
\* longer in the pool the next detection is compared with.
C1_NoGtMatchedTwice ==
    pc = "images" =>
        /\ \A k \in DOMAIN StartedImgs :
               LET recs == ImgRecords(k)
               IN  \A i, j \in DOMAIN recs :
                       (i < j /\ recs[i].bbox_id # -1) => recs[i].bbox_id # recs[j].bbox_id
        /\ \A i \in DOMAIN CurrentRecords :
               CurrentRecords[i].bbox_id # -1 => CurrentRecords[i].bbox_id \notin PoolIds

\* Two detections of one image and category that both fit a ground truth perfectly
\* have both been matched.
C1_Witness ==
    /\ pc = "images"
    /\ \E k \in DOMAIN StartedImgs :
           LET recs == ImgRecords(k)
           IN  \E i, j \in DOMAIN recs :
                   /\ i < j
                   /\ recs[i].cat_id = recs[j].cat_id
                   /\ recs[i].bbox_id # -1 /\ recs[j].bbox_id # -1
                   /\ recs[i].overlap = FOne /\ recs[j].overlap = FOne

\* The overlap of a ground-truth row with a detection, in the geometry of the
\* proposals: polygon IoU for oriented proposals, the aligned formula otherwise.
GeometryOverlap(row, det) ==
    IF props_oriented THEN iou_poly(row.o_bbox, det.bbox)
    ELSE calculate_aligned_overlap(row.a_bbox, det.bbox).val

\* The detection the loop handles next.
NextDet == proposals.val[Head(img_props)]

\* No remaining ground truth of the detection's category overlaps it by more than 0.2.
NoCandidateAbove(det) ==
    \A r \in DOMAIN img_gt :
        img_gt[r].cat_id[1] = det.cat_id => FLeq(GeometryOverlap(img_gt[r], det), ReserveThreshold)

\* C2: a detection none of whose same-category candidates overlaps it by strictly
\* more than 0.2 (exactly 0.2 included) is recorded as unmatched, (-1, 0), and the
\* pool of ground truths stays as it was.
C2_UnmatchedAtOrBelowThreshold ==
    [][(pc = "images" /\ img_props # <<>> /\ NoCandidateAbove(NextDet))
         => /\ overlaps' = Append(overlaps, OverlapRecord(Unmatched, NextDet))
            /\ img_gt' = img_gt]_vars

\* C3: the detections of an image are handled in ascending score order: the records
\* of an image never decrease in score, no detection still waiting scores less than
\* one already handled, and a ground truth claimed by a lower-scoring detection is
\* out of the pool for every higher-scoring one.
C3_AscendingScoreOrder ==
    pc = "images" =>
        /\ \A k \in DOMAIN StartedImgs :
               LET recs == ImgRecords(k)
               IN  \A i, j \in DOMAIN recs : i < j => recs[i].score <= recs[j].score
        /\ \A w \in DOMAIN img_props : \A i \in DOMAIN CurrentRecords :
               /\ CurrentRecords[i].score <= proposals.val[img_props[w]].score
               /\ CurrentRecords[i].bbox_id # -1 => CurrentRecords[i].bbox_id \notin PoolIds

\* A lower-scoring detection has claimed a ground truth and a higher-scoring one of
\* the same category, handled after it, is left unmatched.
C3_Witness ==
    /\ pc = "images"
    /\ \E k \in DOMAIN StartedImgs :
           LET recs == ImgRecords(k)
           IN  \E i, j \in DOMAIN recs :
                   /\ i < j
                   /\ recs[i].score < recs[j].score
                   /\ recs[i].cat_id = recs[j].cat_id
                   /\ recs[i].bbox_id # -1
                   /\ recs[j].bbox_id = -1

\* C4: for aligned and for oriented proposals and any number of same-category
\* candidates, a detection with a candidate above 0.2 is recorded with the id of the
\* remaining same-category ground truth of largest overlap, the first in pool order
\* on ties, and with that largest overlap.
C4_BestCandidateRecorded ==
    [][(pc = "images" /\ img_props # <<>> /\ ~NoCandidateAbove(NextDet))
         => LET cands == SameCatGt(NextDet, img_gt)
                ov(i) == GeometryOverlap(cands[i], NextDet)
            IN  \E i \in DOMAIN cands :
                    /\ \A j \in DOMAIN cands : FLeq(ov(j), ov(i))
                    /\ \A j \in 1..(i - 1) : FLess(ov(j), ov(i))
                    /\ overlaps' = Append(overlaps,
                                          [bbox_id |-> cands[i].id, overlap |-> ov(i),
                                           cat_id |-> NextDet.cat_id, score |-> NextDet.score])]_vars

\* The step that ends a calculate_metrics call with its report, for the arguments
\* recorded in the outcome.
ReportStep ==
    /\ pc = "images" /\ img_props = <<>> /\ todo_imgs = <<>>
    /\ pc' = "idle"
    /\ ret'.op = "calculate_metrics"
    /\ "args" \in DOMAIN ret'

\* C6: with classwise=False and average_thrs=False the call returns, under the one
\* key "average", a mapping with exactly one entry per requested threshold; each
\* entry holds the average precision, mean precision and mean recall at that
\* threshold over all records, with the number of all annotations as the recall
\* denominator.
C6_AggregatePerThreshold ==
    [][(ReportStep /\ ~ret'.args.classwise /\ ~ret'.args.average_thrs)
         => /\ ret'.status = "ok"
            /\ DOMAIN ret'.value = {"average"}
            /\ DOMAIN ret'.value["average"] = Range(ret'.args.iou_thrs)
            /\ \A thr \in Range(ret'.args.iou_thrs) :
                   ret'.value["average"][thr] \in
                       {ThresholdEntry(sorted, thr, Cardinality(DOMAIN ann_info.val)) :
                           sorted \in DescendingOrders(overlaps)}]_vars

\* The mean over the thresholds of one metric of a per-threshold mapping.
MeanOverThresholds(tresh_dict, key) ==
    FDivInt(SumOver(tresh_dict, key, DOMAIN tresh_dict), Cardinality(DOMAIN tresh_dict))

\* C7: with average_thrs=True the call completes without error, and every key of
\* the result (each category, or the overall key) holds one triple: the means, over
\* the requested thresholds, of the per-threshold average precision, mean precision
\* and mean recall.
C7_ThresholdAveraging ==
    [][(ReportStep /\ ret'.args.average_thrs)
         => /\ ret'.status = "ok"
            /\ \E o \in ReportOutcomes(overlaps, proposals.val,
                                       [ret'.args EXCEPT !.average_thrs = FALSE]) :
                   /\ o.ok
                   /\ DOMAIN ret'.value = DOMAIN o.val
                   /\ \A c \in DOMAIN o.val :
                          /\ DOMAIN o.val[c] = Range(ret'.args.iou_thrs)
                          /\ \A key \in {"ap", "precision", "recall"} :
                                 ret'.value[c][key] = MeanOverThresholds(o.val[c], key)]_vars

\* The rows all have boxes of one accepted length.
UniformArity(rows) == \E n \in {4, 8} : \A i \in DOMAIN rows : Len(rows[i].bbox) = n

\* C5: after any sequence of load_proposals calls, the geometry used when a
\* detection is matched is the oriented one if and only if the proposal set loaded
\* last has 8-coordinate boxes; a 4-coordinate set loaded after an 8-coordinate one
\* is matched with the aligned overlap.
C5_GeometryFollowsLastLoad ==
    (pc = "images" /\ img_props # <<>> /\ UniformArity(proposals.val))
        => (props_oriented <=> Len(proposals.val[1].bbox) = 8)

\* C8: load_proposals fails when any entry's box, at whatever position, has a length
\* other than the set's or other than 4 or 8: a load that returned left a set of one
\* accepted arity, and no other set is resident while calculate_metrics runs.
C8_MixedArityRejected ==
    /\ (ret.op = "load_proposals" /\ ret.status = "ok") => UniformArity(proposals.val)
    /\ pc = "images" => UniformArity(proposals.val)

GetterOps == {"get_imgs", "get_anns", "get_img_ann_pair", "get_img_props"}

\* C9: a getter called with both selectors, or with neither, raises and returns
\* nothing; called with exactly one it gets past the selector check.
C9_ExactlyOneSelector ==
    ret.op \in GetterOps =>
        LET one == (ret.args[1] = None) # (ret.args[2] = None)
        IN  /\ ~one => (ret.status = "AssertionError" /\ "value" \notin DOMAIN ret)
            /\ one => ret.status # "AssertionError"

\* With the annotations loaded, get_img_ann_pair was called with both selectors
\* and raised.
C9_Witness ==
    /\ img_info # None
    /\ ret.op = "get_img_ann_pair"
    /\ ret.args[1] # None /\ ret.args[2] # None
    /\ ret.status = "AssertionError"

\* The filter names a set the dataset does not have.
UnknownFilter(f) ==
    IF f = None THEN FALSE
    ELSE IF f.type = "str" THEN f.val \notin Range(DataAnnotationSets)
    ELSE \E k \in DOMAIN f.val : f.val[k] \notin Range(DataAnnotationSets)

\* C10: a call of load_annotations or of set_annotation_set_filter that asks for an
\* annotation set the dataset does not have raises, and the filter in force before
\* the call stays in force.
C10_UnknownFilterRejected ==
    [][(/\ pc = "idle" /\ pc' = "idle"
        /\ ret'.op \in {"load_annotations", "set_annotation_set_filter"}
        /\ UnknownFilter(ret'.args))
         => (ret'.status # "ok" /\ chosen_ann_set' = chosen_ann_set)]_vars

\* C11: a metrics computation can be configured with either AP mode, "area" or
\* "11points": a calculate_metrics call that selects one is carried out and
\* returns its report (computed in that mode).
C11_ModeSelectable ==
    \A mode \in ApModes :
        (/\ ret.op = "calculate_metrics"
         /\ "args" \in DOMAIN ret
         /\ "mode" \in DOMAIN ret.args
         /\ ret.args.mode = mode)
            => ret.status = "ok"

\* C12: _average_precision called with a mode string other than "area" and
\* "11points" raises and returns no average precision; for curves of one shape the
\* error is the ValueError of the unrecognized mode.
C12_UnsupportedModeRaises ==
    (ret.op = "_average_precision" /\ ret.args.mode \notin {"area", "11points"})
        => /\ ret.status # "ok"
           /\ "value" \notin DOMAIN ret
           /\ Len(ret.args.recalls) = Len(ret.args.precisions) => ret.status = "ValueError"

\* _average_precision was called with the mode "trapezoid" on a curve of two points
\* and raised ValueError.
C12_Witness ==
    /\ ret.op = "_average_precision"
    /\ ret.args.mode = "trapezoid"
    /\ Len(ret.args.recalls) = 2 /\ Len(ret.args.precisions) = 2
    /\ ret.status = "ValueError"

\* The number of annotations of the dataset in scope for by_class (all, for None).
InScopeGt(by_class) ==
    Cardinality({k \in DataAnnIds :
                    by_class = None \/ DataAnnotations[k].cat_id[1] = by_class.val})

\* _evaluate_overlaps has been called on records that are all matched with overlap 1,
\* for their own class or for all classes, with thresholds not above 1.
PerfectDetectorCall ==
    /\ ret.op = "_evaluate_overlaps"
    /\ ret.args.by_class = None \/ \A i \in DOMAIN overlaps : overlaps[i].cat_id = ret.args.by_class.val
    /\ \A i \in DOMAIN overlaps : overlaps[i].bbox_id # -1 /\ overlaps[i].overlap = FOne
    /\ \A k \in DOMAIN ret.args.iou_thrs : FLeq(ret.args.iou_thrs[k], FOne)

C14_ZeroGtRecallZero ==
    (ret.op = "_evaluate_overlaps" /\ InScopeGt(ret.args.by_class) = 0)
        => /\ ret.status = "ok"
           /\ DOMAIN ret.value = Range(ret.args.iou_thrs)
           /\ \A thr \in DOMAIN ret.value :
                  /\ ret.value[thr].ap = FZero
                  /\ ret.value[thr].recall = FZero
                  /\ \A sorted \in DescendingOrders(overlaps) :
                         \A i \in DOMAIN sorted :
                             RecallSeq(TpSum(sorted, thr), 0)[i] = FZero

\* Records with a true positive among them were evaluated for class 3, which has no
\* annotation.
C14_Witness ==
    /\ ret.op = "_evaluate_overlaps"
    /\ ret.args.by_class # None /\ ret.args.by_class.val = 3
    /\ ret.status = "ok"
    /\ \E i \in DOMAIN overlaps : overlaps[i].overlap = FOne

\* C15: every average precision that calculate_metrics reports through
\* _evaluate_overlaps, for the records, thresholds and ground-truth counts the
\* engine produces, lies in the closed interval [0, 1].
C15_ApWithinUnitInterval ==
    (ret.op = "calculate_metrics" /\ ret.status = "ok")
        => \A c \in DOMAIN ret.value : \A thr \in DOMAIN ret.value[c] :
               FLeq(FZero, ret.value[c][thr].ap) /\ FLeq(ret.value[c][thr].ap, FOne)

\* C16: calculate_aligned_overlap of an axis-aligned box with an identical box
\* returns 1, boxes of zero width or zero height included.
C16_IdenticalBoxesOverlapOne ==
    (ret.op = "calculate_aligned_overlap" /\ ret.args[1] = ret.args[2])
        => (ret.status = "ok" /\ ret.value = FOne)

\* The records of the images merged in another order of the images.
RECURSIVE MergedFrom(_, _)
MergedFrom(order, k) ==
    IF k > Len(order) THEN <<>> ELSE ImgRecords(order[k]) \o MergedFrom(order, k + 1)

\* No two records of one image have the same score.
NoTieWithinAnImage ==
    \A k \in DOMAIN StartedImgs :
        \A i, j \in DOMAIN ImgRecords(k) :
            i # j => ImgRecords(k)[i].score # ImgRecords(k)[j].score

\* C17: the report of calculate_metrics is the same for every order in which the
\* images are processed and their records merged, also when records of different
\* images have equal scores: whatever the order of the images, the evaluator can
\* produce no other report than the one returned.  (Stated for runs without equal
\* scores inside an image, so that only the order of the images can matter.)
C17_ImageOrderIndependent ==
    [][(ReportStep /\ NoTieWithinAnImage)
         => \A order \in Bijections(Len(StartedImgs)) :
                \A o \in ReportOutcomes(MergedFrom(order, 1), proposals.val, ret'.args) :
                    /\ o.ok <=> ret'.status = "ok"
                    /\ o.ok => o.val = ret'.value
                    /\ ~o.ok => o.exc = ret'.status]_vars

\* A step of a calculate_metrics run that takes the next image.
ImageStep ==
    /\ pc = "images" /\ pc' = "images"
    /\ todo_imgs # <<>> /\ todo_imgs' = Tail(todo_imgs)

\* C18: every step of calculate_metrics leaves the annotation table, the image
\* list, the proposal set, the annotation-set filter and the class blacklist as
\* they were, and every image taken, in a first call or in a later one, starts
\* with the whole list of the image's annotations as its ground truth.
C18_MetricsKeepsStore ==
    [][(pc = "images" \/ pc' = "images")
         => /\ UNCHANGED <<ann_info, img_info, proposals, chosen_ann_set,
                           classes_blacklist_id>>
            /\ ImageStep
                 => {img_gt'[r].id : r \in DOMAIN img_gt'}
                      = Range(DataImages[Head(todo_imgs) + 1].ann_ids)]_vars

\* A ground truth was matched and dropped from the pool of the image in hand,
\* and the annotation table still holds its row.
C18_Witness ==
    /\ pc = "images"
    /\ \E k \in DOMAIN CurrentRecords :
           /\ CurrentRecords[k].bbox_id # -1
           /\ CurrentRecords[k].bbox_id \notin PoolIds
           /\ CurrentRecords[k].bbox_id \in DOMAIN ann_info.val

\* A direct call of _evaluate_overlaps has returned or raised.
EvaluatorCalled == pc = "returned" /\ ret.op = "_evaluate_overlaps"

\* What record i adds to a cumulative count.
CountedAt(sum, i) == sum[i] - (IF i = 1 THEN 0 ELSE sum[i - 1])

\* The rule of the thresholds alone: in every order the evaluator may give the
\* records, a record adds one to the true positives when its overlap is at least
\* the threshold and one to the false positives otherwise.
TpExactlyAtOrAboveThreshold ==
    EvaluatorCalled =>
        \A k \in DOMAIN ret.args.iou_thrs :
            \A recs \in DescendingOrders(overlaps) :
                LET thr == ret.args.iou_thrs[k]
                    tp_sum == TpSum(recs, thr)
                    fp_sum == FpSum(recs, thr)
                IN  \A i \in DOMAIN recs :
                        /\ CountedAt(tp_sum, i) = (IF FLeq(thr, recs[i].overlap) THEN 1 ELSE 0)
                        /\ CountedAt(fp_sum, i) = 1 - CountedAt(tp_sum, i)

\* C19: for every threshold passed to _evaluate_overlaps a record counts as a true
\* positive exactly when its overlap is at least the threshold and as a false
\* positive otherwise, and a record with matched id -1 (overlap 0) counts as a
\* false positive, never as a true positive, for every threshold.
C19_UnmatchedAlwaysFalsePositive ==
    /\ TpExactlyAtOrAboveThreshold
    /\ EvaluatorCalled =>
           \A k \in DOMAIN ret.args.iou_thrs :
               \A recs \in DescendingOrders(overlaps) :
                   \A i \in DOMAIN recs :
                       recs[i].bbox_id = -1
                           => /\ CountedAt(TpSum(recs, ret.args.iou_thrs[k]), i) = 0
                              /\ CountedAt(FpSum(recs, ret.args.iou_thrs[k]), i) = 1

\* The records in descending order of score with equal scores in the order of
\* insertion: what a stable descending sort returns.
StableDescending(recs) ==
    CHOOSE sorted \in DescendingOrders(recs) :
        \E f \in Bijections(Len(recs)) :
            /\ \A i \in DOMAIN recs : sorted[i] = recs[f[i]]
            /\ \A i, j \in DOMAIN recs :
                   (i < j /\ recs[f[i]].score = recs[f[j]].score) => f[i] < f[j]

\* C20: _evaluate_overlaps orders the records by confidence descending with a
\* stable sort, records of equal confidence keeping their order of insertion, at
\* every threshold of the loop: each threshold's entry of a returned report is the
\* one computed from the records in that one order.
C20_StableDescendingSort ==
    (EvaluatorCalled /\ ret.status = "ok") =>
        \A k \in DOMAIN ret.args.iou_thrs :
            \E nr_gt \in NrGt(ret.args.by_class) :
                /\ nr_gt.ok
                /\ ret.value[ret.args.iou_thrs[k]]
                     = ThresholdEntry(StableDescending(overlaps), ret.args.iou_thrs[k], nr_gt.val)

\* The category id of annotation id in the annotation set the proposal file names.
TargetedCat(id) == ann_info.val[id].cat_id[prop_ann_set_idx.val + 1]

\* The ground truths of the pool that the matcher compares with the detection in
\* hand are those whose category in the targeted set is the detection's.
MatcherReadsTargetedSet ==
    (pc = "images" /\ img_props # <<>>) =>
        \A r \in DOMAIN img_gt :
            (\E c \in DOMAIN SameCatGt(NextDet, img_gt) :
                 SameCatGt(NextDet, img_gt)[c].id = img_gt[r].id)
                <=> TargetedCat(img_gt[r].id) = NextDet.cat_id

\* The ground truths counted for the recall of a class of the proposals are those
\* whose category in the targeted set is the class.
RecallCountsTargetedSet ==
    \A i \in DOMAIN proposals.val :
        NrGt([type |-> "float", val |-> proposals.val[i].cat_id])
            = {Ok(Cardinality({k \in DOMAIN ann_info.val :
                                  TargetedCat(k) = proposals.val[i].cat_id}))}

\* C21: the ground-truth category id compared with a detection's category in the
\* matcher, and the one that counts the ground truths of a class for recall, is the
\* annotation's id in the annotation set the loaded proposal file names (the index
\* load_proposals stored), whatever the filter in force and wherever the set stands
\* in the list of annotation sets.
C21_CategoryOfTargetedSet ==
    (proposals # None /\ prop_ann_set_idx # None /\ ann_info # None)
        => MatcherReadsTargetedSet /\ RecallCountsTargetedSet

\* The loop over the images of a calculate_metrics run has ended.
LoopDone == pc = "images" /\ todo_imgs = <<>> /\ img_props = <<>>

\* The proposals of the k-th image of the run, as row numbers.
RowsAt(k) == {i \in DOMAIN proposals.val : proposals.val[i].img_idx = StartedImgs[k]}

\* C22: when the loop over the images has ended the flat collection holds exactly
\* one record per loaded proposal, none skipped and none twice, each record with
\* its proposal's category id and score, and the records of one image stand in
\* ascending order of score.
C22_OneRecordPerProposal ==
    LoopDone =>
        /\ Len(overlaps) = Len(proposals.val)
        /\ \A k \in DOMAIN StartedImgs :
               LET recs == ImgRecords(k)
               IN  /\ Len(recs) = Cardinality(RowsAt(k))
                   /\ \E q \in [DOMAIN recs -> RowsAt(k)] :
                          /\ \A i, j \in DOMAIN recs : i # j => q[i] # q[j]
                          /\ \A j \in DOMAIN recs :
                                 /\ recs[j].cat_id = proposals.val[q[j]].cat_id
                                 /\ recs[j].score = proposals.val[q[j]].score
                   /\ \A j \in 1..(Len(recs) - 1) : recs[j].score <= recs[j + 1].score

\* A run over two images has ended with the records of all its proposals.
C22_Witness ==
    /\ LoopDone
    /\ Len(StartedImgs) = 2
    /\ Len(overlaps) >= 2

\* C23: in visualize_annotation the view index is an index of the image list after
\* any sequence of key presses, 0 .. len(img_info) - 1, every call of visualize
\* finds its image, and the loop ends only on 'esc'.
C23_ViewIndexWithinImages ==
    ret.op = "visualize_annotation" =>
        /\ view \in 0..(Len(img_info.val) - 1)
        /\ ret.status \in {"running", "ok"}
        /\ ret.status = "ok" => KeyIn(kn, {"esc"})

====
